---- MODULE Spec2Model ----
(***************************************************************************)
(* Model of the photon frame loop: examples/hello_world.rs (run, render)   *)
(* and src/lib.rs (Photon::new, Photon::render_encode).                    *)
(*                                                                         *)
(* The winit event loop is single threaded: the closure passed to          *)
(* event_loop.run handles one event at a time.  The handler of             *)
(* RedrawRequested (render) is split into its steps, so that the order of  *)
(* acquisition, reconfiguration, submission and presentation is visible;   *)
(* all the other handlers are one action each.                             *)
(***************************************************************************)
EXTENDS Integers, Sequences, FiniteSets, TLC

\* ---------------------------------------------------------------- bounds
MaxDim == 2          \* window and event dimensions range over 0..MaxDim
MaxEvents == 4       \* number of events the event loop dispatches
MaxFormats == 2      \* length of surface_caps.formats

\* ------------------------------------------------------------ value sets
Dims == 0..MaxDim

Sizes == [width : Dims, height : Dims]

\* wgpu::TextureFormat values the surface may report
Formats == {"Bgra8Unorm", "Bgra8UnormSrgb", "Rgba8UnormSrgb"}

is_srgb(f) == f \in {"Bgra8UnormSrgb", "Rgba8UnormSrgb"}

FormatLists == UNION {[1..n -> Formats] : n \in 1..MaxFormats}

\* wgpu::SurfaceError
SurfaceError == {"Timeout", "Outdated", "Lost", "OutOfMemory"}

\* result of surface.get_current_texture()
Outcomes == {"Ok"} \cup SurfaceError

NoOutcome == "None"

NoFrame == 0

\* the surface texture handed out by attempt a (1 or 2) of tick t
Image(t, a) == 2 * (t - 1) + a

u32max(a, b) == IF a >= b THEN a ELSE b

\* surface_caps.formats.iter().copied().find(|f| f.is_srgb())
RECURSIVE find_srgb(_, _)
find_srgb(fs, i) ==
    IF i > Len(fs) THEN "NoneFound"
    ELSE IF is_srgb(fs[i]) THEN fs[i]
    ELSE find_srgb(fs, i + 1)

\* variant: the first supported format is taken whether it is SRGB or not
surface_format_first(fs) == fs[1]

\* ....unwrap_or(surface_caps.formats[0])
surface_format(fs) ==
    IF find_srgb(fs, 1) = "NoneFound" THEN fs[1] ELSE find_srgb(fs, 1)

\* no pure function has been called / the call has not returned
NoCall == [fn |-> "none"]

NoReturn == [done |-> FALSE]

\* none of the functions has an error path: each returns a plain value
Returned(v) == [done |-> TRUE, error |-> "None", value |-> v]

\* ------------------------------------------------------------ f32 values
\* An f32 is modelled by the exact fraction <<n, d>> in lowest terms with
\* d > 0; d = 0 stands for the IEEE results of a division by zero:
\* <<1, 0>> is +inf, <<-1, 0>> is -inf and <<0, 0>> is NaN.
Abs(i) == IF i < 0 THEN -i ELSE i

Sgn(i) == IF i > 0 THEN 1 ELSE IF i < 0 THEN -1 ELSE 0

RECURSIVE GCD(_, _)
GCD(a, b) == IF b = 0 THEN a ELSE GCD(b, a % b)

\* the fraction n/d, d # 0, in lowest terms
Frac(n, d) ==
    LET g == GCD(Abs(n), Abs(d))
    IN  <<Sgn(d) * (n \div g), Abs(d) \div g>>

F32(i) == <<i, 1>>

IsFinite(a) == a[2] # 0

f32_mul(a, b) ==
    IF IsFinite(a) /\ IsFinite(b) THEN Frac(a[1] * b[1], a[2] * b[2])
    ELSE <<Sgn(a[1]) * Sgn(b[1]), 0>>

f32_div(a, b) ==
    IF ~IsFinite(a) \/ ~IsFinite(b) THEN <<0, 0>>
    ELSE IF b[1] = 0 THEN <<Sgn(a[1]), 0>>
    ELSE Frac(a[1] * b[2], a[2] * b[1])

f32_sub(a, b) ==
    IF ~IsFinite(a) THEN a
    ELSE IF ~IsFinite(b) THEN <<-b[1], 0>>
    ELSE Frac(a[1] * b[2] - b[1] * a[2], a[2] * b[2])

\* a < b for finite values
f32_lt(a, b) == IsFinite(a) /\ IsFinite(b) /\ a[1] * b[2] < b[1] * a[2]

\* variant: the horizontal axis is divided by the window height
to_ndc_SwappedAxis(self, window_size) ==
    IF self.orient = "Horizontal"
       THEN f32_sub(f32_div(f32_mul(self.value, F32(2)), window_size[2]), F32(1))
       ELSE f32_div(f32_mul(self.value, F32(2)), window_size[2])

\* Pixel::to_ndc
to_ndc(self, window_size) ==
    IF self.orient = "Horizontal"
       THEN f32_sub(f32_div(f32_mul(self.value, F32(2)), window_size[1]), F32(1))
       ELSE f32_div(f32_mul(self.value, F32(2)), window_size[2])

\* Pixel::new
Pixel_new(value, orient) == [value |-> value, orient |-> orient]

PixelOrient == {"Vertical", "Horizontal"}

\* pixel values and window dimensions the calls are made with
PixelValues == (-1)..MaxDim

WinDims == (-1)..MaxDim

\* ------------------------------------------------------------------ Shape
ShapeType == {"Rectangle", "Circle"}

\* variant: both shape types get the tag 0
Shape_new_SameTag(size_, position, color, radius, shape_type) ==
    LET shape_type_index == 0
    IN  [size |-> <<size_[1], size_[2]>>,
         position |-> <<position[1], position[2]>>,
         shape_type |-> shape_type_index,
         radius |-> radius,
         color |-> color]

\* Shape::new
Shape_new(size_, position, color, radius, shape_type) ==
    LET shape_type_index == IF shape_type = "Rectangle" THEN 0 ELSE 1
    IN  [size |-> <<size_[1], size_[2]>>,
         position |-> <<position[1], position[2]>>,
         shape_type |-> shape_type_index,
         radius |-> radius,
         color |-> color]

\* f32 arguments the shapes are built from; none is validated
ShapeCoords == {-1, 0, 2}

ShapeRadii == {-1, 3}

ShapeColors == {<<0, 0, 0, 1>>, <<1, 0, 1, 0>>}

\* --------------------------------------------------------------- state
VARIABLES
    size,             \* state.size, captured once before the loop
    config,           \* wgpu::SurfaceConfiguration owned by the closure
    surfaceConfig,    \* the configuration last given to surface.configure
    configureCount,   \* number of surface.configure calls so far
    pipelineFormat,   \* texture_format the render pipeline was built with
    control_flow,     \* winit ControlFlow
    redrawRequested,  \* a window.request_redraw() is pending
    pc,               \* position of the frame loop
    events,           \* number of events dispatched so far
    lastEvent,        \* the event most recently dispatched
    prevEvent,        \* the event dispatched before lastEvent
    tick,             \* number of RedrawRequested events handled
    first,            \* outcome of the first get_current_texture of the tick
    second,           \* outcome of the retry of the tick
    attempts,         \* get_current_texture calls in this tick
    reconfigs,        \* surface.configure calls in this tick
    frame,            \* the acquired SurfaceTexture held by render
    submits,          \* queue.submit calls in this tick
    encodedView,      \* image whose view the submitted pass renders to
    presents,         \* frame.present calls in this tick
    presentedImage,   \* image presented in this tick
    call,             \* a call of one of the pure functions, with its arguments
    ret               \* what that call returned

runVars == <<size, config, surfaceConfig, configureCount, pipelineFormat,
          control_flow, redrawRequested, pc, events, lastEvent, prevEvent,
          tick,
          first, second, attempts, reconfigs, frame, submits, encodedView,
          presents, presentedImage>>

vars == <<runVars, call, ret>>

tickVars == <<tick, first, second, attempts, reconfigs, frame, submits,
              encodedView, presents, presentedImage>>

surfaceVars == <<config, surfaceConfig, configureCount>>

loopVars == <<control_flow, redrawRequested, events, lastEvent, prevEvent>>

Event(k, w, h) == [kind |-> k, width |-> w, height |-> h]

\* ---------------------------------------------------------------- Init
\* run() up to the call of event_loop.run
Init ==
    /\ \E s \in Sizes, fs \in FormatLists :
          /\ size = s
          /\ config = [usage |-> "RENDER_ATTACHMENT",
                       format |-> surface_format(fs),
                       width |-> s.width,
                       height |-> s.height,
                       present_mode |-> "Fifo",
                       alpha_mode |-> "Auto"]
    /\ surfaceConfig = config
    /\ configureCount = 1
    /\ pipelineFormat = config.format
    /\ control_flow = "Poll"
    /\ redrawRequested = FALSE
    /\ pc = "Idle"
    /\ events = 0
    /\ lastEvent = Event("None", 0, 0)
    /\ prevEvent = Event("None", 0, 0)
    /\ tick = 0
    /\ first = NoOutcome
    /\ second = NoOutcome
    /\ attempts = 0
    /\ reconfigs = 0
    /\ frame = NoFrame
    /\ submits = 0
    /\ encodedView = NoFrame
    /\ presents = 0
    /\ presentedImage = NoFrame
    /\ call = NoCall
    /\ ret = NoReturn

\* variant: events are delivered while render is still running
Dispatch_AnyTime(k, w, h) ==
    /\ events < MaxEvents
    /\ events' = events + 1
    /\ lastEvent' = Event(k, w, h)
    /\ prevEvent' = lastEvent

\* the closure is called with an event: the loop is between handlers.
\* Setting ControlFlow::Exit does not stop the dispatch at once: the event
\* loop ends when it next inspects control_flow (LoopExit), and the closure
\* is still called for the events it delivers before that.
Dispatch(k, w, h) ==
    /\ pc = "Idle"
    /\ events < MaxEvents
    /\ events' = events + 1
    /\ lastEvent' = Event(k, w, h)
    /\ prevEvent' = lastEvent

\* ------------------------------------------------------- window events
CloseRequested ==
    /\ Dispatch("CloseRequested", 0, 0)
    /\ control_flow' = "Exit"
    /\ UNCHANGED <<call, ret, size, surfaceVars, pipelineFormat, redrawRequested, pc,
                   tickVars>>

\* variant: the surface is left alone when the size did not change
Resized_SkipUnchanged(w, h) ==
    /\ Dispatch("Resized", w, h)
    /\ config' = [config EXCEPT !.width = u32max(size.width, 1),
                                !.height = u32max(size.height, 1)]
    /\ IF config' = config
          THEN UNCHANGED <<surfaceConfig, configureCount>>
          ELSE surfaceConfig' = config' /\ configureCount' = configureCount + 1
    /\ redrawRequested' = TRUE
    /\ UNCHANGED <<call, ret, size, pipelineFormat, control_flow, pc, tickVars>>

Resized(w, h) ==
    /\ Dispatch("Resized", w, h)
    /\ config' = [config EXCEPT !.width = u32max(size.width, 1),
                                !.height = u32max(size.height, 1)]
    /\ surfaceConfig' = config'
    /\ configureCount' = configureCount + 1
    /\ redrawRequested' = TRUE
    /\ UNCHANGED <<call, ret, size, pipelineFormat, control_flow, pc, tickVars>>

\* variant: the configuration is rebuilt with a default format
ScaleFactorChanged_Rebuild(w, h) ==
    /\ Dispatch("ScaleFactorChanged", w, h)
    /\ config' = [config EXCEPT !.format = "Bgra8Unorm",
                                !.width = u32max(size.width, 1),
                                !.height = u32max(size.height, 1)]
    /\ surfaceConfig' = config'
    /\ configureCount' = configureCount + 1
    /\ redrawRequested' = TRUE
    /\ UNCHANGED <<call, ret, size, pipelineFormat, control_flow, pc, tickVars>>

ScaleFactorChanged(w, h) ==
    /\ Dispatch("ScaleFactorChanged", w, h)
    /\ config' = [config EXCEPT !.width = u32max(size.width, 1),
                                !.height = u32max(size.height, 1)]
    /\ surfaceConfig' = config'
    /\ configureCount' = configureCount + 1
    /\ redrawRequested' = TRUE
    /\ UNCHANGED <<call, ret, size, pipelineFormat, control_flow, pc, tickVars>>

MainEventsCleared ==
    /\ Dispatch("MainEventsCleared", 0, 0)
    /\ redrawRequested' = TRUE
    /\ UNCHANGED <<call, ret, size, surfaceVars, pipelineFormat, control_flow, pc,
                   tickVars>>

\* ControlFlow::Exit ends event_loop.run
LoopExit ==
    /\ pc = "Idle"
    /\ control_flow = "Exit"
    /\ pc' = "Exited"
    /\ UNCHANGED <<call, ret, size, surfaceVars, pipelineFormat, loopVars, tickVars>>

\* --------------------------------------------------------------- render
\* Event::RedrawRequested: render(...) is entered
RedrawRequested ==
    /\ redrawRequested
    /\ Dispatch("RedrawRequested", 0, 0)
    /\ redrawRequested' = FALSE
    /\ pc' = "Acquiring"
    /\ tick' = tick + 1
    /\ first' = NoOutcome
    /\ second' = NoOutcome
    /\ attempts' = 0
    /\ reconfigs' = 0
    /\ frame' = NoFrame
    /\ submits' = 0
    /\ encodedView' = NoFrame
    /\ presents' = 0
    /\ presentedImage' = NoFrame
    /\ UNCHANGED <<call, ret, size, surfaceVars, pipelineFormat, control_flow>>

\* match surface.get_current_texture() { Ok(frame) => frame, Err(_) => ...
Acquire ==
    /\ pc = "Acquiring"
    /\ \E o \in Outcomes :
          /\ first' = o
          /\ attempts' = attempts + 1
          /\ IF o = "Ok"
                THEN frame' = Image(tick, 1) /\ pc' = "Encoding"
                ELSE frame' = frame /\ pc' = "Reconfiguring"
    /\ UNCHANGED <<call, ret, size, surfaceVars, pipelineFormat, loopVars, tick, second,
                   reconfigs, submits, encodedView, presents, presentedImage>>

\* Err(_) => { surface.configure(device, config);
Reconfigure ==
    /\ pc = "Reconfiguring"
    /\ surfaceConfig' = config
    /\ configureCount' = configureCount + 1
    /\ reconfigs' = reconfigs + 1
    /\ pc' = "Retrying"
    /\ UNCHANGED <<call, ret, size, config, pipelineFormat, loopVars, tick, first,
                   second, attempts, frame, submits, encodedView, presents,
                   presentedImage>>

\* variant: a failed retry goes back to reconfigure and try again
Retry_Loop ==
    /\ pc = "Retrying"
    /\ \E o \in Outcomes :
          /\ second' = o
          /\ attempts' = attempts + 1
          /\ IF o = "Ok"
                THEN frame' = Image(tick, 2) /\ pc' = "Encoding"
                ELSE frame' = frame /\ pc' = "Reconfiguring"
    /\ UNCHANGED <<call, ret, size, surfaceVars, pipelineFormat, loopVars, tick, first,
                   reconfigs, submits, encodedView, presents, presentedImage>>

\* variant: the texture returned by the retry is not the one rendered to
Retry_StaleFrame ==
    /\ pc = "Retrying"
    /\ \E o \in Outcomes :
          /\ second' = o
          /\ attempts' = attempts + 1
          /\ IF o = "Ok"
                THEN frame' = Image(tick, 1) /\ pc' = "Encoding"
                ELSE frame' = frame /\ pc' = "Panicked"
    /\ UNCHANGED <<call, ret, size, surfaceVars, pipelineFormat, loopVars, tick, first,
                   reconfigs, submits, encodedView, presents, presentedImage>>

\* surface.get_current_texture().expect("Failed to acquire ...") }
Retry ==
    /\ pc = "Retrying"
    /\ \E o \in Outcomes :
          /\ second' = o
          /\ attempts' = attempts + 1
          /\ IF o = "Ok"
                THEN frame' = Image(tick, 2) /\ pc' = "Encoding"
                ELSE frame' = frame /\ pc' = "Panicked"
    /\ UNCHANGED <<call, ret, size, surfaceVars, pipelineFormat, loopVars, tick, first,
                   reconfigs, submits, encodedView, presents, presentedImage>>

\* variant: the pass is recorded against a view kept from the previous tick
render_encode_StaleView ==
    /\ encodedView' = Image(tick - 1, 1)
    /\ submits' = submits + 1

\* Photon::render_encode: the pass is recorded against the view of the
\* frame and the command buffer is submitted
render_encode ==
    /\ encodedView' = frame
    /\ submits' = submits + 1

\* texture_view, desc, photon.render_encode(&desc)
Encode ==
    /\ pc = "Encoding"
    /\ render_encode
    /\ pc' = "Presenting"
    /\ UNCHANGED <<call, ret, size, surfaceVars, pipelineFormat, loopVars, tick, first,
                   second, attempts, reconfigs, frame, presents,
                   presentedImage>>

\* variant: a frame obtained by the retry is dropped without being presented
Present_DropRetried ==
    /\ pc = "Presenting"
    /\ presents' = IF first = "Ok" THEN presents + 1 ELSE presents
    /\ presentedImage' = IF first = "Ok" THEN frame ELSE presentedImage
    /\ frame' = NoFrame
    /\ pc' = "Idle"
    /\ UNCHANGED <<call, ret, size, surfaceVars, pipelineFormat, loopVars, tick, first,
                   second, attempts, reconfigs, submits, encodedView>>

\* frame.present(); render returns and the frame is dropped
Present ==
    /\ pc = "Presenting"
    /\ presents' = presents + 1
    /\ presentedImage' = frame
    /\ frame' = NoFrame
    /\ pc' = "Idle"
    /\ UNCHANGED <<call, ret, size, surfaceVars, pipelineFormat, loopVars, tick, first,
                   second, attempts, reconfigs, submits, encodedView>>

\* ----------------------------------------------------------------- Next
Next ==
    \/ CloseRequested
    \/ \E w \in Dims, h \in Dims : Resized(w, h)
    \/ \E w \in Dims, h \in Dims : ScaleFactorChanged(w, h)
    \/ MainEventsCleared
    \/ LoopExit
    \/ RedrawRequested
    \/ Acquire
    \/ Reconfigure
    \/ Retry
    \/ Encode
    \/ Present

Spec == Init /\ [][Next]_vars

\* ------------------------------------------------- pure functions, called
\* run(): surface_caps.formats -> surface_format
FormatCalls == [fn : {"surface_format"}, formats : FormatLists]

\* Pixel::new(value, orient).to_ndc((width, height))
NdcCalls == [fn : {"to_ndc"}, value : PixelValues, orient : PixelOrient,
             width : WinDims, height : WinDims]

\* Shape::new(size, position, color, radius, shape_type)
ShapeCalls == [fn : {"Shape_new"}, size : ShapeCoords \X ShapeCoords,
               position : ShapeCoords \X ShapeCoords, color : ShapeColors,
               radius : ShapeRadii, shape_type : ShapeType]

Calls == FormatCalls \cup NdcCalls \cup ShapeCalls

\* a pure function is called with arguments c
Invoke(c) ==
    /\ call = NoCall
    /\ call' = c
    /\ UNCHANGED <<ret, runVars>>

ReturnSurfaceFormat ==
    /\ call.fn = "surface_format"
    /\ ~ret.done
    /\ ret' = Returned(surface_format(call.formats))
    /\ UNCHANGED <<call, runVars>>

ReturnToNdc ==
    /\ call.fn = "to_ndc"
    /\ ~ret.done
    /\ ret' = Returned(to_ndc(Pixel_new(F32(call.value), call.orient),
                              <<F32(call.width), F32(call.height)>>))
    /\ UNCHANGED <<call, runVars>>

ReturnShapeNew ==
    /\ call.fn = "Shape_new"
    /\ ~ret.done
    /\ ret' = Returned(Shape_new(call.size, call.position, call.color,
                                 call.radius, call.shape_type))
    /\ UNCHANGED <<call, runVars>>

NextPure ==
    \/ \E c \in Calls : Invoke(c)
    \/ ReturnSurfaceFormat
    \/ ReturnToNdc
    \/ ReturnShapeNew

SpecPure == Init /\ [][NextPure]_vars

\* ------------------------------------------------------------ properties
ResizeKinds == {"Resized", "ScaleFactorChanged"}

\* surface lost / outdated: the swapchain is stale
StaleErrors == {"Lost", "Outdated"}

Failed(o) == o \in SurfaceError

Acquired == first = "Ok" \/ second = "Ok"

\* render is not running: it has returned, panicked, or the loop has ended
TickOver == tick > 0 /\ pc \in {"Idle", "Exited", "Panicked"}

\* C1 (state part): while a tick runs at most one submission and one present
\* happen, a present never precedes its submission, a submitted frame is
\* unpresented only while render is about to present it, and once the tick
\* is over submissions = presents = 1 if an image was acquired, else 0.
C1_FrameWhole ==
    /\ submits \in {0, 1}
    /\ presents \in {0, 1}
    /\ presents <= submits
    /\ (submits = 1 /\ presents = 0) => pc = "Presenting"
    /\ submits = 1 => Acquired
    /\ TickOver => /\ submits = (IF Acquired THEN 1 ELSE 0)
                   /\ presents = (IF Acquired THEN 1 ELSE 0)

\* C1: in every tick the frame is either fully encoded-and-presented or
\* fully skipped (submissions and presents are both 1 when acquisition
\* succeeded and both 0 otherwise), and the render_encode step is the only
\* step that submits.
C1_FrameAtomic ==
    /\ []C1_FrameWhole
    /\ [][submits' > submits => (pc = "Encoding" /\ render_encode)]_vars

\* a tick that acquired on the retry has been submitted and presented
C1_Witness ==
    /\ pc = "Idle"
    /\ tick > 0
    /\ second = "Ok"
    /\ submits = 1
    /\ presents = 1

\* C2: within a tick acquisition is attempted at most twice and the surface
\* reconfigured at most once; the reconfiguration follows a failed first
\* attempt, uses the current SurfaceConfig, and is followed by exactly one
\* retry, never a third attempt.
C2_BoundedRetry ==
    /\ attempts <= 2
    /\ reconfigs <= 1
    /\ reconfigs = 1 => (Failed(first) /\ attempts >= 1)
    /\ attempts = 2 => (reconfigs = 1 /\ second # NoOutcome)
    /\ pc = "Retrying" => (reconfigs = 1 /\ attempts = 1 /\ surfaceConfig = config)
    /\ (reconfigs = 1 /\ pc # "Retrying") => attempts = 2

\* both attempts of a tick failed: two attempts, one reconfiguration
C2_Witness ==
    /\ Failed(first)
    /\ Failed(second)
    /\ attempts = 2
    /\ reconfigs = 1
    /\ surfaceConfig = config

\* C3: when acquisition fails with "surface lost" on the first attempt and
\* on the retry, the frame is skipped and the driver is back in Idle without
\* a crash and without a third attempt.
C3_DoubleLossSkipsFrame ==
    (first = "Lost" /\ second = "Lost") =>
        (pc = "Idle" /\ attempts = 2 /\ submits = 0 /\ presents = 0)

\* C4: an out-of-memory failure of acquisition is fatal: no reconfigure, no
\* retry, no submission, no presentation after it.
C4_OutOfMemoryFatal ==
    first = "OutOfMemory" =>
        (reconfigs = 0 /\ attempts = 1 /\ second = NoOutcome /\ submits = 0
         /\ presents = 0)

\* C5: after a resize event carrying (w,h) with w>0 and h>0 has been handled,
\* SurfaceConfig has width w and height h and the surface is configured with
\* that config.
C5_ResizeTakesEventSize ==
    (lastEvent.kind \in ResizeKinds /\ lastEvent.width > 0 /\ lastEvent.height > 0) =>
        (config.width = lastEvent.width /\ config.height = lastEvent.height
         /\ surfaceConfig = config)

\* C6: handling a resize event whose width or height is 0 leaves SurfaceConfig
\* unchanged and performs no surface reconfiguration.
C6_ZeroResizeNoOp ==
    [][(events' = events + 1 /\ lastEvent'.kind \in ResizeKinds
        /\ (lastEvent'.width = 0 \/ lastEvent'.height = 0))
       => (config' = config /\ configureCount' = configureCount
           /\ surfaceConfig' = surfaceConfig)]_vars

\* C7: whenever the surface has been configured, the configuration it was
\* configured with has width > 0 and height > 0.
C7_ConfiguredPositive ==
    configureCount >= 1 => (surfaceConfig.width > 0 /\ surfaceConfig.height > 0)

\* C8: when the first acquisition of a tick fails with a stale surface and
\* the retry succeeds, exactly one reconfiguration was performed, render
\* encodes against the image returned by the retry, and that image is
\* submitted once and presented once.
C8_RetriedImageUsed ==
    (first \in StaleErrors /\ second = "Ok") =>
        /\ reconfigs = 1
        /\ attempts = 2
        /\ pc \in {"Encoding", "Presenting", "Idle", "Exited"}
        /\ pc = "Encoding" => (frame = Image(tick, 2) /\ submits = 0 /\ presents = 0)
        /\ pc = "Presenting" => (frame = Image(tick, 2) /\ submits = 1
                                 /\ encodedView = Image(tick, 2) /\ presents = 0)
        /\ pc \in {"Idle", "Exited"} => (submits = 1 /\ presents = 1
                                        /\ encodedView = Image(tick, 2)
                                        /\ presentedImage = Image(tick, 2))

\* the second tick lost the surface, retried, and presented the retried image
C8_Witness ==
    /\ tick = 2
    /\ first = "Lost"
    /\ second = "Ok"
    /\ pc = "Idle"
    /\ reconfigs = 1
    /\ presentedImage = Image(2, 2)

\* C9: an acquisition failure that is neither stale nor out-of-memory (a
\* timeout) causes no reconfigure and no retry and no crash; the frame is
\* skipped.
C9_TimeoutSkipsFrame ==
    first = "Timeout" =>
        (reconfigs = 0 /\ attempts = 1 /\ second = NoOutcome /\ submits = 0
         /\ presents = 0 /\ pc # "Panicked")

\* C10: resize is idempotent: handling the same resize(w,h) twice in a row
\* leaves SurfaceConfig after the second call equal to SurfaceConfig after
\* the first, and every call reconfigures the surface exactly once.
C10_ResizeIdempotent ==
    [][(events' = events + 1 /\ lastEvent'.kind \in ResizeKinds) =>
        /\ configureCount' = configureCount + 1
        /\ surfaceConfig' = config'
        /\ (lastEvent' = lastEvent) => config' = config]_vars

\* the same resize was handled twice in a row after start-up: the first call
\* changed SurfaceConfig, and the surface was configured twice since start-up
C10_Witness ==
    /\ events = 2
    /\ lastEvent.kind = "Resized"
    /\ prevEvent = lastEvent
    /\ config.width # size.width
    /\ configureCount = 3

\* C11: for every non-empty list of supported formats, the format chosen is
\* the first SRGB format of the list if the list has one, and the first
\* format of the list otherwise.
C11_FormatChoice ==
    (call.fn = "surface_format" /\ ret.done) =>
        LET fs == call.formats
            srgbAt == {i \in 1..Len(fs) : is_srgb(fs[i])}
        IN  IF srgbAt = {}
               THEN ret.value = fs[1]
               ELSE \E i \in srgbAt :
                       /\ \A j \in srgbAt : i <= j
                       /\ ret.value = fs[i]

\* a list whose first format is not SRGB and whose second is: the second is
\* chosen
C11_Witness ==
    /\ call.fn = "surface_format"
    /\ ret.done
    /\ Len(call.formats) >= 2
    /\ ~is_srgb(call.formats[1])
    /\ ret.value = call.formats[2]
    /\ is_srgb(ret.value)

NdcReturned == call.fn = "to_ndc" /\ ret.done

\* C12: for all width, height > 0 the x coordinate maps by (x*2/width) - 1
\* and the y coordinate by 1 - (y*2/height), so that the pixel position
\* (0,0) converts to (-1, 1) and (width,height) to (1, -1).
C12_TwoAxisNdc ==
    (NdcReturned /\ call.width > 0 /\ call.height > 0) =>
        /\ call.orient = "Horizontal" =>
              /\ ret.value = Frac(2 * call.value - call.width, call.width)
              /\ call.value = 0 => ret.value = F32(-1)
              /\ call.value = call.width => ret.value = F32(1)
        /\ call.orient = "Vertical" =>
              /\ ret.value = Frac(call.height - 2 * call.value, call.height)
              /\ call.value = 0 => ret.value = F32(1)
              /\ call.value = call.height => ret.value = F32(-1)

\* C13: for every width > 0 the Horizontal conversion equals
\* (value*2/width) - 1, maps 0 to -1 and width to 1, is increasing in value
\* over [0, width] and does not depend on the window height.
C13_HorizontalNdc ==
    (NdcReturned /\ call.orient = "Horizontal" /\ call.width > 0) =>
        /\ IsFinite(ret.value)
        /\ ret.value[1] * call.width = (2 * call.value - call.width) * ret.value[2]
        /\ call.value = 0 => ret.value = F32(-1)
        /\ call.value = call.width => ret.value = F32(1)
        /\ \A v2 \in PixelValues :
              (0 <= call.value /\ call.value < v2 /\ v2 <= call.width) =>
                  f32_lt(ret.value,
                         to_ndc(Pixel_new(F32(v2), "Horizontal"),
                                <<F32(call.width), F32(call.height)>>))
        /\ \A h2 \in WinDims :
              to_ndc(Pixel_new(F32(call.value), "Horizontal"),
                     <<F32(call.width), F32(h2)>>) = ret.value

\* a horizontal value strictly inside a window wider than it is high
C13_Witness ==
    /\ NdcReturned
    /\ call.orient = "Horizontal"
    /\ call.width = 2
    /\ call.height = 1
    /\ call.value = 1
    /\ ret.value = F32(0)

\* C14: to_ndc called with a window width or height <= 0 fails with
\* InvalidArgument instead of returning a value.
C14_ZeroWindowRejected ==
    (NdcReturned /\ (call.width <= 0 \/ call.height <= 0)) =>
        ret.error = "InvalidArgument"

\* reading the packed tag back as a shape type
ShapeTypeOfTag(t) == IF t = 0 THEN "Rectangle" ELSE IF t = 1 THEN "Circle" ELSE "Invalid"

\* C15: Shape::new stores tag 0 for Rectangle and 1 for Circle, so decoding
\* the tag recovers the kind passed in and distinct kinds get distinct tags;
\* size, position, radius and color are stored unchanged, negative values
\* included, and every call returns a shape.
C15_ShapeRoundTrip ==
    (call.fn = "Shape_new" /\ ret.done) =>
        /\ ret.error = "None"
        /\ ret.value.shape_type \in {0, 1}
        /\ ret.value.shape_type = 0 <=> call.shape_type = "Rectangle"
        /\ ret.value.shape_type = 1 <=> call.shape_type = "Circle"
        /\ ShapeTypeOfTag(ret.value.shape_type) = call.shape_type
        /\ ret.value.size = call.size
        /\ ret.value.position = call.position
        /\ ret.value.radius = call.radius
        /\ ret.value.color = call.color

\* a circle of negative size and radius was built and decodes to Circle
C15_Witness ==
    /\ call.fn = "Shape_new"
    /\ ret.done
    /\ call.shape_type = "Circle"
    /\ call.size = <<-1, -1>>
    /\ call.radius = -1
    /\ ret.value.size = <<-1, -1>>
    /\ ret.value.shape_type = 1

\* the Frame Driver state a position of the loop belongs to: acquisition
\* covers the first attempt, the reconfiguration and the retry; a panic is
\* the terminal error; after the loop has ended the driver is at rest
DriverState(p) ==
    CASE p \in {"Idle", "Exited"} -> "Idle"
      [] p \in {"Acquiring", "Reconfiguring", "Retrying"} -> "Acquiring"
      [] p = "Encoding" -> "Encoding"
      [] p = "Presenting" -> "Presenting"
      [] p = "Panicked" -> "Error"

DriverTransitions ==
    {<<"Idle", "Acquiring">>, <<"Acquiring", "Encoding">>,
     <<"Encoding", "Presenting">>, <<"Presenting", "Idle">>,
     <<"Acquiring", "Error">>, <<"Presenting", "Error">>}

\* the image was handed out by an attempt of the current tick that succeeded
AcquiredThisTick(img) ==
    \/ img = Image(tick, 1) /\ first = "Ok"
    \/ img = Image(tick, 2) /\ second = "Ok"

C16_InTickOrder ==
    /\ pc = "Encoding" => (AcquiredThisTick(frame) /\ submits = 0 /\ presents = 0)
    /\ pc = "Presenting" => (submits = 1 /\ presents = 0 /\ frame = encodedView)
    /\ submits = 1 => AcquiredThisTick(encodedView)
    /\ presents = 1 => (submits = 1 /\ presentedImage = encodedView)

C16_StepOrder ==
    /\ (DriverState(pc') # DriverState(pc)) =>
           (<<DriverState(pc), DriverState(pc')>> \in DriverTransitions)
    /\ (submits' > submits) => (Acquired /\ frame # NoFrame)
    /\ (presents' > presents) =>
           (submits = 1 /\ submits' = 1 /\ presentedImage' = encodedView)

\* C16: within every tick the steps occur in the order acquire ->
\* encode/submit -> present: the pass is encoded only against the view of an
\* image acquired in the same tick, the submission precedes the present of
\* that image, and the driver state only moves Idle -> Acquiring -> Encoding
\* -> Presenting -> Idle, with Error entered only from Acquiring or
\* Presenting.
\* C16: the in-tick order holds in every state and every step follows it
C16_TickOrder == []C16_InTickOrder /\ [][C16_StepOrder]_vars

\* two ticks ran to the end, the second on its first attempt
C16_Witness ==
    /\ tick = 2
    /\ pc = "Idle"
    /\ first = "Ok"
    /\ submits = 1
    /\ presents = 1
    /\ presentedImage = Image(2, 1)

\* window events are handled only between ticks, and SurfaceConfig and
\* control_flow do not change while a tick is in flight
C17_NoInterleavingStep ==
    /\ (events' # events) => pc = "Idle"
    /\ (config' # config \/ control_flow' # control_flow) =>
           (pc = "Idle" /\ pc' = "Idle")
    /\ (pc # "Idle") => (config' = config /\ surfaceConfig' = config')

\* C17 as claimed: window events never interleave with a tick, SurfaceConfig
\* is constant during a tick, and once a stop request has been handled no
\* further tick starts.
C17_NoTickAfterStop ==
    [][/\ C17_NoInterleavingStep
       /\ (control_flow = "Exit") => (tick' = tick)]_vars

\* C17 as amended: window events never interleave with a tick, SurfaceConfig
\* is constant during a tick, and a stop request is honored only between
\* ticks: once set, ControlFlow::Exit stays set and the loop ends only from
\* Idle, never mid-frame (events still delivered before it ends are handled).
C17_StopBetweenTicks ==
    [][/\ C17_NoInterleavingStep
       /\ (control_flow = "Exit") => (control_flow' = "Exit")
       /\ (pc' = "Exited" /\ pc # "Exited") =>
              (pc = "Idle" /\ control_flow = "Exit")]_vars

\* after a resize and a close request, a tick still ran to the end before
\* the loop ended
C17_Witness ==
    /\ pc = "Exited"
    /\ control_flow = "Exit"
    /\ config # [config EXCEPT !.width = size.width, !.height = size.height]
    /\ tick = 1
    /\ presents = 1
    /\ lastEvent.kind = "RedrawRequested"

Fatal(o) == o = "OutOfMemory"

\* C18: as long as no close request has been handled and no fatal
\* (out-of-memory) error has occurred the loop keeps rendering: every
\* MainEventsCleared requests a redraw and every tick ends with a frame
\* presented, also after transient (lost / outdated) acquisition failures;
\* the process ends by a clean exit, never by a crash.
C18_RendersOrExitsCleanly ==
    /\ pc # "Panicked"
    /\ lastEvent.kind = "MainEventsCleared" => redrawRequested
    /\ (TickOver /\ ~Fatal(first) /\ ~Fatal(second)) => presents = 1

C19_FormatStep ==
    /\ pipelineFormat' = pipelineFormat
    /\ config'.format = config.format
    /\ config'.present_mode = config.present_mode
    /\ config'.usage = config.usage
    /\ config'.alpha_mode = config.alpha_mode
    /\ surfaceConfig'.format = surfaceConfig.format

\* C19: in every state after start-up the format the render pipeline was
\* created with equals SurfaceConfig.format (and the format the surface is
\* configured with); no resize, scale-factor change or reconfigure-on-retry
\* changes the format, present mode or usage of SurfaceConfig.
C19_PipelineFormatFixed ==
    /\ [](pipelineFormat = config.format /\ surfaceConfig.format = pipelineFormat)
    /\ [][C19_FormatStep]_vars

\* a reconfigure-on-retry and a scale-factor change have happened, the size
\* in SurfaceConfig has changed, and the SRGB format is still the pipeline's
C19_Witness ==
    /\ lastEvent.kind = "ScaleFactorChanged"
    /\ tick = 1
    /\ reconfigs = 1
    /\ config.width # size.width
    /\ is_srgb(config.format)
    /\ pipelineFormat = config.format
    /\ surfaceConfig = config

====
